---- MODULE Spec2Model ----
(***************************************************************************)
(* A model of ufot/widgets.py: the two array helpers remove_extrema and    *)
(* create_volume, and the slider-driven viewers ProjectionViewer,          *)
(* SliceViewer and OverlapViewer.                                          *)
(*                                                                         *)
(* Conventions.                                                            *)
(*  - A 1-D array is a sequence; a 2-D array is a non-empty sequence of    *)
(*    rows of equal length; indices are 1-based here and 0-based in the    *)
(*    source, slider positions stay 0-based.                               *)
(*  - The source is Python 2 style code: "/" on two ints is floor          *)
(*    division.                                                            *)
(*  - A QSlider is the record [min, max, value]; setRange, setValue and    *)
(*    setSliderPosition clamp, and emit valueChanged only when the value   *)
(*    changes; the connected slot update_image then runs inside the call.  *)
(*    An exception raised inside a slot does not unwind the emitting call. *)
(***************************************************************************)
EXTENDS Integers, Sequences, FiniteSets, TLC

VARIABLES
    rx,        \* remove_extrema run: [dtype, data, pc, out]
    cv,        \* create_volume run:  [data, build, pc, volume]
    sv,        \* the SliceViewer instance
    pv,        \* the ProjectionViewer instance
    readerOK,  \* whether the dataset reader currently succeeds
    ov,        \* the OverlapViewer instances
    heap,      \* the caller's arrays, by name (numpy buffers)
    last       \* the operation that produced the current state

vars == <<rx, cv, sv, pv, readerOK, ov, heap, last>>

\* The value of a variable a specification does not use.
Idle == [idle |-> TRUE]

\* Python's None where an array is expected (comparable with arrays)
None == <<>>

(***************************************************************************)
(* Array helpers (numpy).                                                  *)
(***************************************************************************)
Min2(a, b) == IF a <= b THEN a ELSE b

Max2(a, b) == IF a >= b THEN a ELSE b

\* C cast of a rational n/d (d > 0) to an integer: truncation toward zero.
TruncDiv(n, d) == IF n >= 0 THEN n \div d ELSE -((-n) \div d)

\* The sequence <<Op(1), ..., Op(n)>>, built element by element.
RECURSIVE Tabulate(_, _)
Tabulate(Op(_), n) == IF n = 0 THEN <<>> ELSE Append(Tabulate(Op, n - 1), Op(n))

NRows(A) == Len(A)

NCols(A) == Len(A[1])

\* ndarray.shape of a 2-D array
Shape(A) == <<NRows(A), NCols(A)>>

\* ndarray.T of a 2-D array
Transpose(A) ==
    Tabulate(LAMBDA j : Tabulate(LAMBDA i : A[i][j], NRows(A)), NCols(A))

\* np.flipud: reverse the first axis
Flipud(A) == Tabulate(LAMBDA i : A[Len(A) + 1 - i], Len(A))

\* C-order flattening of a 2-D array, and its inverse for a given row length
Flatten(A) ==
    Tabulate(LAMBDA k : A[((k - 1) \div NCols(A)) + 1][((k - 1) % NCols(A)) + 1],
             NRows(A) * NCols(A))

Unflatten(s, cols) ==
    Tabulate(LAMBDA i : Tabulate(LAMBDA j : s[(i - 1) * cols + j], cols),
             Len(s) \div cols)

\* np.sort of a 1-D array
Sorted(s) == SortSeq(s, LAMBDA a, b : a < b)

(***************************************************************************)
(* remove_extrema                                                          *)
(***************************************************************************)
\* 100 * np.percentile(data, q), linear interpolation between order
\* statistics: the virtual index is q*(n-1)/100.
Percentile100(s, q) ==
    LET srt  == Sorted(s)
        pos  == q * (Len(s) - 1)
        lo   == pos \div 100
        frac == pos % 100
    IN  IF frac = 0 THEN 100 * srt[lo + 1]
        ELSE 100 * srt[lo + 1] + frac * (srt[lo + 2] - srt[lo + 1])

\* One sample of an integer array through lines 16-17: the float percentile
\* is cast to the array's integer type on assignment (truncation).
ClampInt(v, upper100, lower100) ==
    LET v1 == IF 100 * v > upper100 THEN TruncDiv(upper100, 100) ELSE v
    IN  IF 100 * v1 < lower100 THEN TruncDiv(lower100, 100) ELSE v1

\* One sample of a float array through lines 16-17, in hundredths.
ClampFloat100(v, upper100, lower100) ==
    LET v1 == IF 100 * v > upper100 THEN upper100 ELSE 100 * v
    IN  IF v1 < lower100 THEN lower100 ELSE v1

\* remove_extrema on a flat integer array: the array after the in-place
\* update.
RemoveExtremaInt(s) ==
    LET upper100 == Percentile100(s, 99)
        lower100 == Percentile100(s, 1)
    IN  Tabulate(LAMBDA k : ClampInt(s[k], upper100, lower100), Len(s))

\* remove_extrema on a flat float array: the result in hundredths.
RemoveExtremaFloat100(s) ==
    LET upper100 == Percentile100(s, 99)
        lower100 == Percentile100(s, 1)
    IN  Tabulate(LAMBDA k : ClampFloat100(s[k], upper100, lower100), Len(s))

\* remove_extrema on a 2-D integer array
RemoveExtrema2D(A) == Unflatten(RemoveExtremaInt(Flatten(A)), NCols(A))

\* ---- the run of remove_extrema on one input ----
MaxLen == 3

Samples == {-10, 0, 5, 10}

SampleArrays == UNION {[1..n -> Samples] : n \in 1..MaxLen}

RxInit ==
    /\ rx \in {[dtype |-> t, data |-> d, pc |-> "call", out |-> <<>>] :
                   t \in {"int", "float"}, d \in SampleArrays}
    /\ cv = Idle /\ sv = Idle /\ pv = Idle /\ readerOK = TRUE
    /\ ov = Idle /\ heap = Idle
    /\ last = [op |-> "init"]

\* remove_extrema(data) on an integer array
RxCallInt ==
    /\ rx.pc = "call" /\ rx.dtype = "int"
    /\ rx' = [rx EXCEPT !.pc = "done", !.out = RemoveExtremaInt(rx.data)]
    /\ last' = [op |-> "remove_extrema"]
    /\ UNCHANGED <<cv, sv, pv, readerOK, ov, heap>>

\* remove_extrema(data) on a float array
RxCallFloat ==
    /\ rx.pc = "call" /\ rx.dtype = "float"
    /\ rx' = [rx EXCEPT !.pc = "done", !.out = RemoveExtremaFloat100(rx.data)]
    /\ last' = [op |-> "remove_extrema"]
    /\ UNCHANGED <<cv, sv, pv, readerOK, ov, heap>>

RxNext == RxCallInt \/ RxCallFloat

SpecExtrema == RxInit /\ [][RxNext]_vars

\* The output samples in hundredths, whatever the sample type.
RxOut100(k) == IF rx.dtype = "int" THEN 100 * rx.out[k] ELSE rx.out[k]

(* C6: after remove_extrema(data), for an integer or a float array, every  *)
(* output value lies between the input's 1st and 99th percentile, and      *)
(* every input value strictly between them is unchanged at its index.      *)
C6_Clipped ==
    rx.pc = "done" =>
        LET upper100 == Percentile100(rx.data, 99)
            lower100 == Percentile100(rx.data, 1)
        IN  \A k \in 1..Len(rx.data) :
              /\ lower100 <= RxOut100(k)
              /\ RxOut100(k) <= upper100
              /\ (lower100 < 100 * rx.data[k] /\ 100 * rx.data[k] < upper100)
                     => RxOut100(k) = 100 * rx.data[k]

\* The same statement restricted to float arrays (not a claim; it documents
\* where C6 does hold).
C6_FloatOnly == rx.dtype = "float" => C6_Clipped

(***************************************************************************)
(* create_volume                                                           *)
(***************************************************************************)
\* A 3-D float array is [shape |-> <<w, h, n>>, flat |-> its C-order
\* samples]; the samples are integer-valued floats.

\* np.roll(data, 1) with no axis: the flattened array rotated by one.
RollFlat1(s) == Tabulate(LAMBDA k : IF k = 1 THEN s[Len(s)] ELSE s[k - 1], Len(s))

\* line 21
Gradient(s) == LET r == RollFlat1(s)
               IN  Tabulate(LAMBDA k : (s[k] - r[k]) * (s[k] - r[k]), Len(s))

SeqMin(s) == CHOOSE m \in {s[k] : k \in 1..Len(s)} :
                 \A k \in 1..Len(s) : m <= s[k]

SeqMax(s) == CHOOSE m \in {s[k] : k \in 1..Len(s)} :
                 \A k \in 1..Len(s) : m >= s[k]

\* Assignment of the float n/d (d > 0) into the np.ubyte volume: a C cast.
\* Inside 0..255 it truncates; outside the conversion is undefined in C, and
\* the build decides: the low byte of the integer (wrap) or the nearest end
\* of the range (saturate).
ToUbyte(n, d, build) ==
    LET t == TruncDiv(n, d)
    IN  IF 0 <= t /\ t <= 255 THEN t
        ELSE IF build.cast = "wrap" THEN t % 256
        ELSE IF t < 0 THEN 0 ELSE 255

\* The cast of the alpha sample of voxel k (lines 22-24, 30): 0/0 is NaN when
\* the gradient is constant, and the cast of NaN is the build's.
AlphaByte(g, k, build) ==
    LET cmin == SeqMin(g)
        div  == SeqMax(g) - cmin
    IN  IF div = 0 THEN build.nan
        ELSE ToUbyte((g[k] - cmin) * 255, div, build)

\* create_volume(data): shape data.shape + (4,), voxels <<R, G, B, A>>.
CreateVolume(data, build) ==
    LET g == Gradient(data.flat)
    IN  [shape |-> data.shape \o <<4>>,
         vox   |-> Tabulate(LAMBDA k : <<ToUbyte(data.flat[k], 1, build),
                                         ToUbyte(data.flat[k], 1, build),
                                         ToUbyte(data.flat[k], 1, build),
                                         AlphaByte(g, k, build)>>,
                            Len(data.flat))]

\* ---- the run of create_volume on one input ----
MaxVoxels == 3

Intensities == {0, 1, 3, 300}

VolumeShapes == {sh \in (1..MaxVoxels) \X (1..MaxVoxels) \X (1..MaxVoxels) :
                    sh[1] * sh[2] * sh[3] <= MaxVoxels}

VolumeInputs == UNION {{[shape |-> sh, flat |-> f] :
                           f \in [1..(sh[1] * sh[2] * sh[3]) -> Intensities]} :
                       sh \in VolumeShapes}

Builds == [cast : {"wrap", "saturate"}, nan : {0, 255}]

CvInit ==
    /\ cv \in {[data |-> d, build |-> b, pc |-> "call", volume |-> None] :
                   d \in VolumeInputs, b \in Builds}
    /\ rx = Idle /\ sv = Idle /\ pv = Idle /\ readerOK = TRUE
    /\ ov = Idle /\ heap = Idle
    /\ last = [op |-> "init"]

\* create_volume(data)
CvCall ==
    /\ cv.pc = "call"
    /\ cv' = [cv EXCEPT !.pc = "done",
                        !.volume = CreateVolume(cv.data, cv.build)]
    /\ last' = [op |-> "create_volume"]
    /\ UNCHANGED <<rx, sv, pv, readerOK, ov, heap>>

CvNext == CvCall

SpecVolume == CvInit /\ [][CvNext]_vars

(* C7: create_volume(data) returns an array of shape data.shape + (4,)     *)
(* whose alpha channel lies in 0..255 and is the squared difference        *)
(* (I - roll(I,1))^2 normalised by min/max to 0..255 (as stored in a byte, *)
(* i.e. truncated), and whose R, G and B channels equal the intensity.     *)
C7_Volume ==
    cv.pc = "done" =>
        LET g    == Gradient(cv.data.flat)
            cmin == SeqMin(g)
            div  == SeqMax(g) - cmin
        IN  /\ cv.volume.shape = cv.data.shape \o <<4>>
            /\ \A k \in 1..Len(cv.data.flat) :
                 /\ cv.volume.vox[k][4] \in 0..255
                 /\ div > 0 => cv.volume.vox[k][4] = ((g[k] - cmin) * 255) \div div
                 /\ cv.volume.vox[k][1] = cv.data.flat[k]
                 /\ cv.volume.vox[k][2] = cv.data.flat[k]
                 /\ cv.volume.vox[k][3] = cv.data.flat[k]

\* The part of C7 the byte volume does satisfy (not a claim): shape and
\* alpha range.
C7_ShapeAndRange ==
    cv.pc = "done" =>
        /\ cv.volume.shape = cv.data.shape \o <<4>>
        /\ \A k \in 1..Len(cv.data.flat) : cv.volume.vox[k][4] \in 0..255

(***************************************************************************)
(* QSlider (QAbstractSlider): the parts of its behaviour the viewers use.  *)
(***************************************************************************)
Clamp(v, lo, hi) == Max2(lo, Min2(v, hi))

\* A freshly constructed QSlider: range 0..99, value 0.
NewSlider == [min |-> 0, max |-> 99, value |-> 0]

\* slider.setRange(lo, hi): the maximum is at least the minimum, and the
\* value is brought into the new range.
SetRange(s, lo, hi) ==
    [min |-> lo, max |-> Max2(lo, hi), value |-> Clamp(s.value, lo, Max2(lo, hi))]

\* slider.setValue(v) and slider.setSliderPosition(v) (tracking is on):
\* the value clamped into the range.
SetValue(s, v) == [s EXCEPT !.value = Clamp(v, s.min, s.max)]

(***************************************************************************)
(* read_tiff and SliceViewer                                               *)
(***************************************************************************)
MaxFileId == 2

MaxFiles == 3

\* File names. Name 0 is a path tifffile cannot decode (TiffFile raises);
\* the others are single-image TIFF files.
FileIds == 0..MaxFileId

Decodable(f) == f # 0

\* The array stored in file f, as tifffile returns it (rows x columns).
TiffArray(f) == <<<<10 * f, 10 * f + 1>>>>

\* read_tiff(filename): the stored array transposed.
ReadTiff(f) == Transpose(TiffArray(f))

FileLists == UNION {[1..n -> FileIds] : n \in 0..MaxFiles}

\* Bug variant: the slot ignores the slider and shows the first file.
SvUpdateImageFirst(w) ==
    IF Len(w.filenames) > 0 /\ Decodable(w.filenames[1])
    THEN [w EXCEPT !.image = ReadTiff(w.filenames[1])]
    ELSE w

\* Whether SliceViewer.update_image raises: the list index or the reader.
SvUpdateRaises(w) ==
    /\ Len(w.filenames) > 0
    /\ \/ w.slider.value + 1 > Len(w.filenames)
       \/ ~Decodable(w.filenames[w.slider.value + 1])

\* SliceViewer.update_image: the widget afterwards (unchanged when it raises
\* or when filenames is empty).
SvUpdateImage(w) ==
    IF Len(w.filenames) > 0 /\ ~SvUpdateRaises(w)
    THEN [w EXCEPT !.image = ReadTiff(w.filenames[w.slider.value + 1])]
    ELSE w

\* valueChanged: the slot runs when the slider value differs from `old`.
SvEmit(old, w) == IF w.slider.value # old THEN SvUpdateImage(w) ELSE w

\* SliceViewer.load_files(filenames), up to its last statement.
SvLoadSlider(w, fs) ==
    LET w1 == [w EXCEPT !.filenames = fs]
        w2 == SvEmit(w1.slider.value,
                     [w1 EXCEPT !.slider = SetRange(w1.slider, 0, Len(fs) - 1)])
    IN  SvEmit(w2.slider.value, [w2 EXCEPT !.slider = SetValue(w2.slider, 0)])

\* SliceViewer.load_files(filenames): the widget afterwards.
SvLoadFiles(w, fs) == SvUpdateImage(SvLoadSlider(w, fs))

\* SliceViewer.__init__ before it calls load_files.
SvNew == [filenames |-> <<>>, slider |-> NewSlider, image |-> None]

\* A SliceViewer exists once its constructor returned: load_files did not
\* raise.
SvInit ==
    /\ \E fs \in FileLists :
          /\ ~SvUpdateRaises(SvLoadSlider(SvNew, fs))
          /\ sv = SvLoadFiles(SvNew, fs)
    /\ last = [op |-> "__init__", raised |-> FALSE]
    /\ rx = Idle /\ cv = Idle /\ pv = Idle /\ readerOK = TRUE
    /\ ov = Idle /\ heap = Idle

\* The host calls load_files(fs).
SvLoad(fs) ==
    /\ sv' = SvLoadFiles(sv, fs)
    /\ last' = [op |-> "load_files", raised |-> SvUpdateRaises(SvLoadSlider(sv, fs))]
    /\ UNCHANGED <<rx, cv, pv, readerOK, ov, heap>>

\* The user drags the slider to position p.
SvSliderMove(p) ==
    /\ p \in sv.slider.min..sv.slider.max
    /\ p # sv.slider.value
    /\ LET w == [sv EXCEPT !.slider = SetValue(sv.slider, p)]
       IN  /\ sv' = SvEmit(sv.slider.value, w)
           /\ last' = [op |-> "slider_move", raised |-> SvUpdateRaises(w)]
    /\ UNCHANGED <<rx, cv, pv, readerOK, ov, heap>>

\* The host calls update_image() itself.
SvUpdate ==
    /\ sv' = SvUpdateImage(sv)
    /\ last' = [op |-> "update_image", raised |-> SvUpdateRaises(sv)]
    /\ UNCHANGED <<rx, cv, pv, readerOK, ov, heap>>

SvNext ==
    \/ \E fs \in FileLists : SvLoad(fs)
    \/ \E p \in 0..MaxFiles : SvSliderMove(p)
    \/ SvUpdate

SpecSlice == SvInit /\ [][SvNext]_vars

\* `if self.filenames:` - what makes slider-driven rendering possible
SvLoaded == Len(sv.filenames) > 0

\* The image SliceViewer reads for its current position.
SvCurrent == ReadTiff(sv.filenames[sv.slider.value + 1])

(* C2: for SliceViewer, right after construction or load_files the slider  *)
(* position is 0; and with N >= 1 files the position is always in          *)
(* [0, N-1] and, whenever filenames[p] decodes, the displayed image is     *)
(* exactly the image decoded from filenames[p] for the current position p  *)
(* (so it is that of filenames[0] right after load_files).                 *)
C2_SliceShowsCurrent ==
    /\ last.op \in {"__init__", "load_files"} => sv.slider.value = 0
    /\ SvLoaded =>
         /\ sv.slider.value \in 0..(Len(sv.filenames) - 1)
         /\ Decodable(sv.filenames[sv.slider.value + 1]) => sv.image = SvCurrent

\* C2's case: three files loaded, then a move to the last one.
C2_Witness ==
    /\ last.op = "slider_move"
    /\ Len(sv.filenames) = 3
    /\ sv.slider.value = 2
    /\ sv.filenames[3] # sv.filenames[1]
    /\ sv.image = ReadTiff(sv.filenames[3])

(* C9: each slider widget is a two-state machine: while unloaded no slider *)
(* change or update_image call changes the displayed frame; a load call    *)
(* moves it to loaded; once loaded, every slider change and every further  *)
(* load call (an empty file list included) leaves it loaded, showing the   *)
(* frame that the loaded data and the slider position determine.           *)
C9_TwoStateMachine ==
    [][ /\ (~SvLoaded /\ last'.op \in {"slider_move", "update_image"})
              => sv'.image = sv.image
        /\ last'.op = "load_files" => SvLoaded'
        /\ SvLoaded => SvLoaded'
        /\ (SvLoaded' /\ ~last'.raised) => sv'.image = SvCurrent'
      ]_vars

(***************************************************************************)
(* ProjectionViewer                                                        *)
(***************************************************************************)
MaxDataset == 2

\* Dataset file names. Name 0 is the empty path "" (false in `if`, and no
\* file); name d >= 1 is a dataset file with d + 1 projection frames.
DatasetNames == 0..MaxDataset

FrameCount(d) == d + 1

\* proj[i] of dataset d (i is 0-based), one row of two pixels
ProjFrame(d, i) == <<<<6 * d + i, 4 + 2 * i>>>>

\* flat[0] of dataset d: all ones in dataset 1
FlatFrame(d) == IF d = 1 THEN <<<<1, 1>>>> ELSE <<<<2, 4>>>>

\* util.get_dx_dims(fname, 'data'): the shape of the projection stack
GetDxDims(d) == <<FrameCount(d), 1, 2>>

RECURSIVE Gcd(_, _)
Gcd(a, b) == IF b = 0 THEN a ELSE Gcd(b, a % b)

\* The float n/d as a fraction in lowest terms (d > 0, n >= 0).
Frac(n, d) == [num |-> n \div Gcd(n, d), den |-> d \div Gcd(n, d)]

\* proj.astype(np.float)
AsFloat(A) ==
    Tabulate(LAMBDA i : Tabulate(LAMBDA j : Frac(A[i][j], 1), NCols(A)), NRows(A))

\* proj.astype(np.float) / flat.astype(np.float), element-wise
Divide(A, B) ==
    Tabulate(LAMBDA i : Tabulate(LAMBDA j : Frac(A[i][j], B[i][j]), NCols(A)),
             NRows(A))

\* self.filenames = None (line 60), among the dataset names
NoName == -1

\* `if self.filenames:`
Truthy(f) == f # NoName /\ f # 0

\* Whether dx.read_aps_32id(d, proj=(pos, pos+1)) followed by proj[0] works.
CanRead(d, pos, ok) == ok /\ d # 0 /\ pos < FrameCount(d)

\* lines 80-83: the image update_image builds from frame pos of dataset d
PvImage(d, pos, ffc) ==
    IF ffc THEN Divide(ProjFrame(d, pos), FlatFrame(d))
    ELSE AsFloat(ProjFrame(d, pos))

PvUpdateRaises(w, ok) ==
    Truthy(w.filenames) /\ ~CanRead(w.filenames, w.slider.value, ok)

\* ProjectionViewer.update_image: the widget afterwards
PvUpdateImage(w, ok) ==
    IF Truthy(w.filenames) /\ ~PvUpdateRaises(w, ok)
    THEN [w EXCEPT !.image = PvImage(w.filenames, w.slider.value, w.ffc_correction)]
    ELSE w

PvEmit(old, w, ok) == IF w.slider.value # old THEN PvUpdateImage(w, ok) ELSE w

\* Bug variant: load_files keeps the slider where it was.
PvLoadSliderNoReset(w, d, ffc, ok) ==
    LET w1 == [w EXCEPT !.filenames = d, !.ffc_correction = ffc]
    IN  IF ~CanRead(d, 0, ok) THEN w1
        ELSE PvEmit(w1.slider.value,
                    [w1 EXCEPT !.slider = SetRange(w1.slider, 0, GetDxDims(d)[1] - 1)],
                    ok)

\* ProjectionViewer.load_files up to its last statement: the fields, the
\* first read (which raises out of load_files), then the slider.
PvLoadSlider(w, d, ffc, ok) ==
    LET w1 == [w EXCEPT !.filenames = d, !.ffc_correction = ffc]
    IN  IF ~CanRead(d, 0, ok) THEN w1
        ELSE LET w2 == PvEmit(w1.slider.value,
                         [w1 EXCEPT !.slider = SetRange(w1.slider, 0, GetDxDims(d)[1] - 1)],
                         ok)
             IN  PvEmit(w2.slider.value,
                        [w2 EXCEPT !.slider = SetValue(w2.slider, 0)], ok)

\* ProjectionViewer.load_files: the widget afterwards
PvLoadFiles(w, d, ffc, ok) ==
    IF ~CanRead(d, 0, ok) THEN PvLoadSlider(w, d, ffc, ok)
    ELSE PvUpdateImage(PvLoadSlider(w, d, ffc, ok), ok)

PvLoadRaises(w, d, ffc, ok) ==
    ~CanRead(d, 0, ok) \/ PvUpdateRaises(PvLoadSlider(w, d, ffc, ok), ok)

\* ProjectionViewer.__init__
PvInit ==
    /\ pv = [filenames |-> NoName, ffc_correction |-> FALSE,
             slider |-> SetRange(NewSlider, 0, 0), image |-> None]
    /\ readerOK = TRUE
    /\ last = [op |-> "__init__", raised |-> FALSE]
    /\ rx = Idle /\ cv = Idle /\ sv = Idle /\ ov = Idle /\ heap = Idle

\* The host calls load_files(d, ffc).
PvLoad(d, ffc) ==
    /\ pv' = PvLoadFiles(pv, d, ffc, readerOK)
    /\ last' = [op |-> "load_files", raised |-> PvLoadRaises(pv, d, ffc, readerOK)]
    /\ UNCHANGED <<rx, cv, sv, readerOK, ov, heap>>

\* The user drags the slider to position p.
PvSliderMove(p) ==
    /\ p \in pv.slider.min..pv.slider.max
    /\ p # pv.slider.value
    /\ LET w == [pv EXCEPT !.slider = SetValue(pv.slider, p)]
       IN  /\ pv' = PvEmit(pv.slider.value, w, readerOK)
           /\ last' = [op |-> "slider_move", raised |-> PvUpdateRaises(w, readerOK)]
    /\ UNCHANGED <<rx, cv, sv, readerOK, ov, heap>>

\* The host calls update_image() itself.
PvUpdate ==
    /\ pv' = PvUpdateImage(pv, readerOK)
    /\ last' = [op |-> "update_image", raised |-> PvUpdateRaises(pv, readerOK)]
    /\ UNCHANGED <<rx, cv, sv, readerOK, ov, heap>>

\* The dataset files become unreadable (the file is locked or the mount is
\* gone): every reader call raises until they are readable again.
ReaderFails ==
    /\ readerOK /\ readerOK' = FALSE
    /\ last' = [op |-> "env", raised |-> FALSE]
    /\ UNCHANGED <<rx, cv, sv, pv, ov, heap>>

ReaderRecovers ==
    /\ ~readerOK /\ readerOK' = TRUE
    /\ last' = [op |-> "env", raised |-> FALSE]
    /\ UNCHANGED <<rx, cv, sv, pv, ov, heap>>

PvNext ==
    \/ \E d \in DatasetNames, ffc \in BOOLEAN : PvLoad(d, ffc)
    \/ \E p \in 0..MaxDataset : PvSliderMove(p)
    \/ PvUpdate
    \/ ReaderFails
    \/ ReaderRecovers

SpecProjection == PvInit /\ [][PvNext]_vars

(* C1: for ProjectionViewer (and SliceViewer), in every reachable state,   *)
(* also after a reload with another frame count and after a load_files     *)
(* that failed part-way, the slider range is (0, N-1) for the dataset the  *)
(* filenames field references and the position lies in [0, N-1].           *)
C1_RangeMatchesDataset ==
    Truthy(pv.filenames) =>
        /\ pv.slider.min = 0
        /\ pv.slider.max = FrameCount(pv.filenames) - 1
        /\ pv.slider.value \in 0..(FrameCount(pv.filenames) - 1)

(* C3: for ProjectionViewer, a load_files(d, ffc) that returns sets the    *)
(* slider range to (0, N-1), the position to 0 and displays frame 0; after *)
(* a slider move to p whose read succeeds the displayed frame is frame p,  *)
(* divided element-wise by the flat frame when ffc_correction is true, so  *)
(* that with an all-ones flat frame it equals the raw frame p.             *)
C3_ProjectionShowsFrame ==
    /\ (last.op = "load_files" /\ ~last.raised) =>
          /\ pv.slider.min = 0
          /\ pv.slider.max = FrameCount(pv.filenames) - 1
          /\ pv.slider.value = 0
    /\ (last.op \in {"load_files", "slider_move"} /\ ~last.raised
           /\ Truthy(pv.filenames)) =>
          /\ pv.image = IF pv.ffc_correction
                        THEN Divide(ProjFrame(pv.filenames, pv.slider.value),
                                    FlatFrame(pv.filenames))
                        ELSE AsFloat(ProjFrame(pv.filenames, pv.slider.value))
          /\ (\A i \in 1..1, j \in 1..2 : FlatFrame(pv.filenames)[i][j] = 1)
                => pv.image = AsFloat(ProjFrame(pv.filenames, pv.slider.value))

\* C3's case: flat-field correction on over an all-ones flat frame, the
\* slider moved to frame 1.
C3_Witness ==
    /\ last.op = "slider_move" /\ ~last.raised
    /\ pv.filenames = 1 /\ pv.ffc_correction
    /\ pv.slider.value = 1
    /\ pv.image = AsFloat(ProjFrame(1, 1))

(***************************************************************************)
(* OverlapViewer                                                           *)
(***************************************************************************)
\* The caller's images are integer arrays held in `heap` by name. first.T
\* and np.flipud(second.T) are views: the viewer's fields reference the
\* caller's buffers, and remove_extrema writes through them.
MaxCols == 2

MaxPixel == 3

ArrayNames == {"x", "y"}

NoArray == "none"

\* one-row images of 1..MaxCols columns, each pixel dark or bright
Images == UNION {[1..1 -> [1..c -> {0, MaxPixel}]] : c \in 1..MaxCols}

\* Bug variant: a shift outside 0..n-1 is ignored instead of wrapped.
RollNoWrap(A, shift) ==
    IF shift \in 0..(Len(A) - 1)
    THEN SubSeq(A, Len(A) - shift + 1, Len(A)) \o SubSeq(A, 1, Len(A) - shift)
    ELSE A

\* np.roll(A, shift, axis=0): the shift is taken modulo the axis length and
\* the last `shift` rows move to the front.
Roll(A, shift) ==
    LET n == Len(A)
        k == shift % n
    IN  SubSeq(A, n - k + 1, n) \o SubSeq(A, 1, n - k)

\* numpy broadcasting of two 2-D shapes
Broadcastable(A, B) ==
    /\ (NRows(A) = NRows(B) \/ NRows(A) = 1 \/ NRows(B) = 1)
    /\ (NCols(A) = NCols(B) \/ NCols(A) = 1 \/ NCols(B) = 1)

\* A - B with broadcasting
Subtract(A, B) ==
    Tabulate(LAMBDA i :
        Tabulate(LAMBDA j :
            A[IF NRows(A) = 1 THEN 1 ELSE i][IF NCols(A) = 1 THEN 1 ELSE j]
          - B[IF NRows(B) = 1 THEN 1 ELSE i][IF NCols(B) = 1 THEN 1 ELSE j],
          Max2(NCols(A), NCols(B))),
        Max2(NRows(A), NRows(B)))

\* self.first and self.second as arrays, read through the views
OvFirst(w, hp) == Transpose(hp[w.first])

\* Bug variant: the second image is not flipped.
OvSecondNoFlip(w, hp) == Transpose(hp[w.second])

OvSecond(w, hp) == Flipud(Transpose(hp[w.second]))

OvIsSet(w) == w.first # NoArray /\ w.second # NoArray

OvUpdateRaises(w, hp) ==
    OvIsSet(w) /\ ~Broadcastable(OvSecond(w, hp), OvFirst(w, hp))

\* OverlapViewer.update_image: the widget afterwards
OvUpdateImage(w, hp) ==
    IF OvIsSet(w) /\ ~OvUpdateRaises(w, hp)
    THEN [w EXCEPT !.image =
             Subtract(Roll(OvSecond(w, hp),
                           (NRows(OvSecond(w, hp)) \div 2) - w.slider.value),
                      OvFirst(w, hp))]
    ELSE w

OvEmit(old, w, hp) == IF w.slider.value # old THEN OvUpdateImage(w, hp) ELSE w

\* lines 149-150 on the caller's buffers: remove_extrema clips first.T in
\* place, then np.flipud(second.T) in place.
OvClip(hp, a, b) ==
    LET h1 == [hp EXCEPT ![a] = Transpose(RemoveExtrema2D(Transpose(hp[a])))]
    IN  [h1 EXCEPT ![b] =
            Transpose(Flipud(RemoveExtrema2D(Flipud(Transpose(h1[b])))))]

\* Bug variant: the midpoint is rounded up.
OvMidpointCeil(n) == (n + 1) \div 2

\* self.first.shape[0] / 2 on Python ints
OvMidpoint(n) == n \div 2

\* OverlapViewer.set_images up to its last statement, on the clipped heap hp
OvSetSlider(w, hp, a, b) ==
    LET w1 == [w EXCEPT !.first = a, !.second = b]
        H  == NRows(OvFirst(w1, hp))
        w2 == OvEmit(w1.slider.value,
                     [w1 EXCEPT !.slider = SetRange(w1.slider, 0, H)], hp)
    IN  OvEmit(w2.slider.value,
               [w2 EXCEPT !.slider = SetValue(w2.slider, OvMidpoint(H))], hp)

\* OverlapViewer.set_images: the widget afterwards
OvSetImages(w, hp, a, b) == OvUpdateImage(OvSetSlider(w, hp, a, b), hp)

\* OverlapViewer.__init__
OvNew == [first |-> NoArray, second |-> NoArray,
          slider |-> SetRange(NewSlider, 0, 0), image |-> None]

\* every pair of caller images
AllHeaps == [ArrayNames -> Images]

\* one pair: a two-pixel ramp and its mirror image
RampHeaps == {[x |-> <<<<0, MaxPixel>>>>, y |-> <<<<MaxPixel, 0>>>>]}

OvInit(viewers, heaps) ==
    /\ ov = [v \in viewers |-> OvNew]
    /\ heap \in heaps
    /\ last = [op |-> "__init__", v |-> "", raised |-> FALSE, symmetric |-> FALSE]
    /\ rx = Idle /\ cv = Idle /\ sv = Idle /\ pv = Idle /\ readerOK = TRUE

\* The host calls v.set_images(heap[a], heap[b]).
OvSet(v, a, b) ==
    LET hp == OvClip(heap, a, b)
    IN  /\ heap' = hp
        /\ ov' = [ov EXCEPT ![v] = OvSetImages(ov[v], hp, a, b)]
        /\ last' = [op |-> "set_images", v |-> v,
                    raised |-> OvUpdateRaises(OvSetSlider(ov[v], hp, a, b), hp),
                    symmetric |-> Flipud(Transpose(heap[b])) = Transpose(heap[a])]
        /\ UNCHANGED <<rx, cv, sv, pv, readerOK>>

\* The host calls v.set_position(p): setValue, then update_image again.
OvSetPosition(v, p) ==
    LET w == [ov[v] EXCEPT !.slider = SetValue(ov[v].slider, p)]
    IN  /\ ov' = [ov EXCEPT ![v] = OvUpdateImage(OvEmit(ov[v].slider.value, w, heap), heap)]
        /\ last' = [op |-> "set_position", v |-> v,
                    raised |-> OvUpdateRaises(w, heap), symmetric |-> FALSE]
        /\ UNCHANGED <<rx, cv, sv, pv, readerOK, heap>>

\* The user drags v's slider to position p.
OvSliderMove(v, p) ==
    /\ p \in ov[v].slider.min..ov[v].slider.max
    /\ p # ov[v].slider.value
    /\ LET w == [ov[v] EXCEPT !.slider = SetValue(ov[v].slider, p)]
       IN  /\ ov' = [ov EXCEPT ![v] = OvEmit(ov[v].slider.value, w, heap)]
           /\ last' = [op |-> "slider_move", v |-> v,
                       raised |-> OvUpdateRaises(w, heap), symmetric |-> FALSE]
    /\ UNCHANGED <<rx, cv, sv, pv, readerOK, heap>>

\* The host calls v.update_image() itself.
OvUpdate(v) ==
    /\ ov' = [ov EXCEPT ![v] = OvUpdateImage(ov[v], heap)]
    /\ last' = [op |-> "update_image", v |-> v,
                raised |-> OvUpdateRaises(ov[v], heap), symmetric |-> FALSE]
    /\ UNCHANGED <<rx, cv, sv, pv, readerOK, heap>>

OvNext ==
    \/ \E v \in DOMAIN ov, a \in ArrayNames, b \in ArrayNames : OvSet(v, a, b)
    \/ \E v \in DOMAIN ov, p \in -1..(MaxCols + 1) : OvSetPosition(v, p)
    \/ \E v \in DOMAIN ov, p \in 0..MaxCols : OvSliderMove(v, p)
    \/ \E v \in DOMAIN ov : OvUpdate(v)

\* one OverlapViewer
SpecOverlap == OvInit({"ov1"}, AllHeaps) /\ [][OvNext]_vars

\* two OverlapViewers of the same host
SpecTwoOverlaps == OvInit({"ov1", "ov2"}, RampHeaps) /\ [][OvNext]_vars

OvOps == {"set_images", "set_position", "slider_move", "update_image"}

\* The viewer the last operation acted on, when its update_image returned.
OvJustUpdated(v) ==
    /\ last.op \in OvOps /\ last.v = v /\ ~last.raised
    /\ OvIsSet(ov[v])

\* The first-axis length of the transposed first image: its column count.
OvHeight(v) == Len(heap[ov[v].first][1])

(* C4: set_images(first, second) sets the slider range to [0, H] and the   *)
(* position to H/2 truncated, H being the first-axis length of the         *)
(* transposed first image; the position is an integer inside the range,    *)
(* for odd and for even H.                                                 *)
C4_MidpointTruncated ==
    \A v \in DOMAIN ov :
        (last.op = "set_images" /\ last.v = v) =>
            /\ ov[v].slider.min = 0
            /\ ov[v].slider.max = OvHeight(v)
            /\ 2 * ov[v].slider.value <= OvHeight(v)
            /\ OvHeight(v) < 2 * ov[v].slider.value + 2
            /\ ov[v].slider.value \in 0..OvHeight(v)

\* C4's case: set_images on a first image of odd H.
C4_Witness ==
    \E v \in DOMAIN ov :
        /\ last.op = "set_images" /\ last.v = v
        /\ OvHeight(v) % 2 = 1
        /\ ov[v].slider.max = OvHeight(v)

C8_FullPeriodShift ==
    /\ \A a \in ArrayNames :
          LET S == Flipud(Transpose(heap[a]))
          IN  Roll(S, Len(S)) = S /\ Roll(S, 0) = S
    /\ \A v \in DOMAIN ov :
          (/\ OvJustUpdated(v)
           /\ NRows(OvFirst(ov[v], heap)) = NRows(OvSecond(ov[v], heap))
           /\ ov[v].slider.value \in {0, OvHeight(v)}) =>
              ov[v].image =
                  Subtract(Roll(OvSecond(ov[v], heap),
                                (OvHeight(v) \div 2)
                                   - (OvHeight(v) - ov[v].slider.value)),
                           OvFirst(ov[v], heap))

\* C8's case: the slider dragged to the upper endpoint H, where the shift
\* H/2 - H is negative and the shifted image differs from the unshifted one.
C8_Witness ==
    \E v \in DOMAIN ov :
        /\ OvJustUpdated(v) /\ last.op = "slider_move"
        /\ NRows(OvFirst(ov[v], heap)) = NRows(OvSecond(ov[v], heap))
        /\ ov[v].slider.value = OvHeight(v)
        /\ Roll(OvSecond(ov[v], heap), OvHeight(v) \div 2) # OvSecond(ov[v], heap)

\* What a viewer holds: its slider, its displayed frame and its two images.
OvHolds(v) ==
    <<ov[v], IF OvIsSet(ov[v])
             THEN <<OvFirst(ov[v], heap), OvSecond(ov[v], heap)>>
             ELSE <<>> >>

(* C10: no mutable state is shared across widget instances: an operation   *)
(* on one OverlapViewer leaves the slider, the displayed frame and the     *)
(* loaded images of every other instance unchanged, also when both were    *)
(* given the same input arrays.                                            *)
C10_InstancesIndependent ==
    [][\A w \in DOMAIN ov : w # last'.v => OvHolds(w)' = OvHolds(w)]_vars

====
